---- MODULE Spec2Model ----
(***************************************************************************)
(* Model of main.py of satellite-images-downloader: the grid download of   *)
(* NAIP tiles (download_satellite_images / download_image /                *)
(* crop_black_borders), the random "UAV" pass (create_random_uav_images /  *)
(* manipulate_image_improved) and the file names both write and parse.     *)
(*                                                                         *)
(* Text is a sequence of one-character strings, so that formatting and     *)
(* parsing are computed character by character.  Floats (latitude,         *)
(* longitude, a float scale) are integers in units of 1e-6; FloatRepr      *)
(* prints them the way Python's repr prints the float.                     *)
(***************************************************************************)
EXTENDS Integers, Sequences, FiniteSets, TLC

VARIABLES
    area_length,    \* main.py:19, metres
    area_height,    \* main.py:22, metres
    imagery,        \* what the provider holds for the area (external input)
    pc,             \* position of the process
    calls,          \* number of top-level calls made so far
    scale,          \* argument of the running call
    buffer_radius,  \* argument of the running call
    crop_size,      \* argument of the running create_random_uav_images
    num_rows,       \* main.py:102
    num_columns,    \* main.py:103
    x,              \* outer loop index, main.py:110
    y,              \* inner loop index, main.py:111
    visited,        \* the calls of download_image made by the running call
    latitude,       \* argument of the running download_image, main.py:43
    longitude,      \* argument of the running download_image, main.py:43
    output_path,    \* path the running download_image writes, main.py:87
    rejections,     \* number of EEException caught at main.py:74
    parsed,         \* the fields read from a file name, main.py:173-177
    todo,           \* files os.walk has listed and the loop has not reached
    fs,             \* the file system: path -> content
    fs0,            \* the file system when the running call started
    op,             \* the top-level function called last
    exit_code       \* exit status of the process, once it has ended

vars == <<area_length, area_height, imagery, pc, calls, scale, buffer_radius,
          crop_size, num_rows, num_columns, x, y, visited, latitude, longitude,
          output_path, rejections, parsed, todo, fs, fs0, op, exit_code>>

(* The configuration and the provider's data never change during a run *)
inputs == <<area_length, area_height, imagery>>

----------------------------------------------------------------------------
(* Bounds of the model *)

MaxCalls == 3
MaxCells == 8

(* main.py:13 and main.py:16, in units of 1e-6 degrees *)
latitude_bottom_left == 37910715
longitude_bottom_left == -91773328

(* random.randint(0, 359), main.py:139 *)
MaxAngle == 359

----------------------------------------------------------------------------
(* Text *)

DigitChars == <<"0", "1", "2", "3", "4", "5", "6", "7", "8", "9">>

Digit(d) == DigitChars[d + 1]

RECURSIVE IntStr(_)
(* str() of a non-negative Python int *)
IntStr(n) == IF n < 10 THEN <<Digit(n)>>
             ELSE IntStr(n \div 10) \o <<Digit(n % 10)>>

Pow10(k) == CASE k = 0 -> 1 [] k = 1 -> 10 [] k = 2 -> 100 [] k = 3 -> 1000
              [] k = 4 -> 10000 [] k = 5 -> 100000 [] OTHER -> 1000000

PadFrac(f) == [i \in 1..6 |-> Digit((f \div Pow10(6 - i)) % 10)]

RECURSIVE StripZeros(_)
StripZeros(s) == IF Len(s) > 1 /\ s[Len(s)] = "0"
                 THEN StripZeros(SubSeq(s, 1, Len(s) - 1))
                 ELSE s

Abs(m) == IF m < 0 THEN 0 - m ELSE m

(* repr() of the Python float m * 1e-6: positional notation from 1e-4 up,  *)
(* exponent notation below it.                                             *)
FloatRepr(m) ==
    LET a == Abs(m)
        sign == IF m < 0 THEN <<"-">> ELSE <<>>
        body == IF a = 0 THEN <<"0", ".", "0">>
                ELSE IF a >= 100
                THEN IntStr(a \div Pow10(6)) \o <<".">> \o StripZeros(PadFrac(a % Pow10(6)))
                ELSE IF a >= 10
                THEN <<Digit(a \div 10)>>
                     \o (IF a % 10 = 0 THEN <<>> ELSE <<".", Digit(a % 10)>>)
                     \o <<"e", "-", "0", "5">>
                ELSE <<Digit(a)>> \o <<"e", "-", "0", "6">>
    IN  sign \o body

(* A scale is a Python int or a Python float: [float, micro].  f'{scale}'  *)
FormatNum(n) == IF n.float THEN FloatRepr(n.micro) ELSE IntStr(n.micro \div Pow10(6))

PyInt(n) == [float |-> FALSE, micro |-> n * Pow10(6)]
PyFloat(m) == [float |-> TRUE, micro |-> m]

IndexOf(s, c) == IF \E i \in 1..Len(s) : s[i] = c
                 THEN CHOOSE i \in 1..Len(s) : s[i] = c /\ \A j \in 1..(i - 1) : s[j] # c
                 ELSE 0

RECURSIVE Split(_, _)
(* str.split(c) for a one-character separator: empty fields are kept *)
Split(s, c) == LET i == IndexOf(s, c)
               IN  IF i = 0 THEN <<s>>
                   ELSE <<SubSeq(s, 1, i - 1)>> \o Split(SubSeq(s, i + 1, Len(s)), c)

StartsWith(s, p) == Len(s) >= Len(p) /\ SubSeq(s, 1, Len(p)) = p

FindSub(s, p) == IF \E i \in 1..(Len(s) - Len(p) + 1) : SubSeq(s, i, i + Len(p) - 1) = p
                 THEN CHOOSE i \in 1..(Len(s) - Len(p) + 1) :
                        /\ SubSeq(s, i, i + Len(p) - 1) = p
                        /\ \A j \in 1..(i - 1) : SubSeq(s, j, j + Len(p) - 1) # p
                 ELSE 0

(* s.split(p)[0] *)
BeforeFirst(s, p) == LET i == FindSub(s, p)
                     IN  IF i = 0 THEN s ELSE SubSeq(s, 1, i - 1)

LastIndexOf(s, c) == IF \E i \in 1..Len(s) : s[i] = c
                     THEN CHOOSE i \in 1..Len(s) :
                            s[i] = c /\ \A j \in (i + 1)..Len(s) : s[j] # c
                     ELSE 0

Basename(p) == SubSeq(p, LastIndexOf(p, "/") + 1, Len(p))
Dirname(p) == SubSeq(p, 1, LastIndexOf(p, "/") - 1)

DotTif == <<".", "t", "i", "f">>

----------------------------------------------------------------------------
(* Names of folders and files *)

(* OutFolder with the two values interchanged *)
OutFolderSwapped(r, s) ==
    <<"o", "u", "t", "/", "s", "i", "z", "e">> \o FormatNum(s)
        \o <<"_", "r", "e", "s">> \o IntStr(r)

(* f'out/size{buffer_radius}_res{scale}', main.py:83 and main.py:162 *)
OutFolder(r, s) ==
    <<"o", "u", "t", "/", "s", "i", "z", "e">> \o IntStr(r)
        \o <<"_", "r", "e", "s">> \o FormatNum(s)

(* f'out_uav/size{buffer_radius}_res{scale}', main.py:163 *)
OutUavFolder(r, s) ==
    <<"o", "u", "t", "_", "u", "a", "v", "/", "s", "i", "z", "e">> \o IntStr(r)
        \o <<"_", "r", "e", "s">> \o FormatNum(s)

(* f'{out_folder}/naip_{x}_{y}__{latitude}_{longitude}.tif', main.py:87 *)
OutputPath(folder, cx, cy, lat, lon) ==
    folder \o <<"/", "n", "a", "i", "p", "_">> \o IntStr(cx) \o <<"_">> \o IntStr(cy)
        \o <<"_", "_">> \o FloatRepr(lat) \o <<"_">> \o FloatRepr(lon) \o DotTif

(* UavOutputPath naming the file by its cell only *)
UavOutputPathCellOnly(uav_folder, file) ==
    uav_folder \o <<"/">> \o BeforeFirst(file, <<"_", "_">>) \o DotTif

(* os.path.join(out_uav_folder, file), main.py:186 *)
UavOutputPath(uav_folder, file) == uav_folder \o <<"/">> \o file

(* The parsing of a file name, main.py:173-177.  A name with fewer than   *)
(* six fields raises IndexError.                                           *)
ParseX(parts) == parts[2]
ParseY(parts) == parts[3]
ParseLatitude(parts) == parts[5]
(* ParseLongitude cutting at the first dot: split('.')[0] *)
ParseLongitudeAtDot(parts) == BeforeFirst(parts[6], <<".">>)

ParseLongitude(parts) == BeforeFirst(parts[6], DotTif)

ParseFileName(file) ==
    LET parts == Split(file, "_")
    IN  IF Len(parts) < 6 THEN [ok |-> FALSE]
        ELSE [ok |-> TRUE, x |-> ParseX(parts), y |-> ParseY(parts),
              latitude |-> ParseLatitude(parts), longitude |-> ParseLongitude(parts)]

----------------------------------------------------------------------------
(* Geometry *)

(* geodesic(meters=m).destination(point, bearing) for the bearings 0 and   *)
(* 90 the program uses, on the local tangent plane at the bottom-left      *)
(* corner: one metre is 9e-6 degrees of latitude and 11e-6 degrees of      *)
(* longitude there.                                                        *)
Destination(point, bearing, meters) ==
    IF bearing = 90
    THEN [latitude |-> point.latitude, longitude |-> point.longitude + 11 * meters]
    ELSE [latitude |-> point.latitude + 9 * meters, longitude |-> point.longitude]

start_point == [latitude |-> latitude_bottom_left, longitude |-> longitude_bottom_left]

(* main.py:102-103; int() of the quotient of two positive ints *)
NumRows(h, r) == h \div r
NumColumns(l, r) == l \div r

(* DistanceEast with a spacing of one radius *)
DistanceEastOneRadius(cy, r) == cy * r

(* main.py:113-114 *)
DistanceEast(cy, r) == cy * 2 * r
DistanceNorth(cx, r) == cx * 2 * r

(* main.py:117-118 *)
NewPoint(cx, cy, r) ==
    Destination(Destination(start_point, 90, DistanceEast(cy, r)), 0, DistanceNorth(cx, r))

----------------------------------------------------------------------------
(* Inputs of the model *)

AreaLengths == {1700, 4000}
AreaHeights == {900, 2500, 4000}

(* What the provider holds: tiles with a black border, entirely dark      *)
(* tiles, bytes that are no image, or a mixture decided by the position.   *)
Imageries == {"bordered", "black", "corrupt", "mixed"}

(* The calls of __main__, main.py:195-200 *)
MainConfigs ==
    { <<PyInt(3), 2000>>, <<PyInt(4), 3000>>, <<PyInt(3), 4000>>,
      <<PyFloat(600000), 800>> }

(* The calls of __main__ and one with a smaller radius *)
DownloadConfigs == MainConfigs \cup { <<PyInt(3), 400>> }

(* The call of __main__ (main.py:203) and one with another scale *)
UavConfigs == { <<PyFloat(600000), 800, 500>>, <<PyInt(3), 2000, 500>> }

(* Angles random.randint(0, 359) can return; the model draws from these *)
Angles == {0, MaxAngle}

----------------------------------------------------------------------------
(* The provider and the images *)

MixedKinds == <<"bordered", "black">>

ImageKind(img, lat, lon) ==
    IF img # "mixed" THEN img
    ELSE MixedKinds[(((lat + lon) \div 1000) % 2) + 1]

(* response.content of requests.get(url), main.py:80 *)
Payload(img, lat, lon, s, r) ==
    [form |-> "raw", kind |-> ImageKind(img, lat, lon),
     latitude |-> lat, longitude |-> lon, scale |-> s, buffer_radius |-> r]

(* Image.open(image_path) succeeds, main.py:27 and main.py:130 *)
IsImage(c) == c.form = "uav" \/ c.kind # "corrupt"

(* diff.getbbox() is not None, main.py:34-35: some pixel is not dark *)
HasBBox(c) == c.kind = "bordered"

(* CropBlackBorders without the save *)
CropBlackBordersNoSave(c) == c

(* image.crop(bbox) saved over the file, main.py:36-37 *)
CropBlackBorders(c) == IF HasBBox(c) THEN [c EXCEPT !.form = "cropped"] ELSE c

(* img.rotate(...).crop(crop_box), main.py:143-154 *)
ManipulateImage(c, angle, cs) ==
    [form |-> "uav", src |-> c, angle |-> angle, crop_size |-> cs]

(* open(path, 'wb').write(c) and Image.save(path) *)
Write(f, path, c) == [p \in DOMAIN f \cup {path} |-> IF p = path THEN c ELSE f[p]]

(* The files os.walk(out_folder) lists, main.py:171 *)
FilesUnder(f, folder) == {p \in DOMAIN f : Dirname(p) = folder}

EmptyFs == [p \in {} |-> 0]

NotParsed == [ok |-> FALSE]

----------------------------------------------------------------------------
(* The program *)

Init ==
    /\ area_length \in AreaLengths
    /\ area_height \in AreaHeights
    /\ imagery \in Imageries
    /\ pc = "main"
    /\ calls = 0
    /\ scale = PyInt(0)
    /\ buffer_radius = 0
    /\ crop_size = 0
    /\ num_rows = 0
    /\ num_columns = 0
    /\ x = 0
    /\ y = 0
    /\ visited = <<>>
    /\ latitude = 0
    /\ longitude = 0
    /\ output_path = <<>>
    /\ rejections = 0
    /\ parsed = NotParsed
    /\ todo = {}
    /\ fs = EmptyFs
    /\ fs0 = EmptyFs
    /\ op = "none"
    /\ exit_code = 0

(* download_satellite_images(scale, buffer_radius) is called and reaches  *)
(* its loop, main.py:97-110                                                *)
download_satellite_images(s, r) ==
    /\ pc = "main"
    /\ calls < MaxCalls
    /\ NumRows(area_height, r) * NumColumns(area_length, r) <= MaxCells
    /\ calls' = calls + 1
    /\ scale' = s
    /\ buffer_radius' = r
    /\ num_rows' = NumRows(area_height, r)
    /\ num_columns' = NumColumns(area_length, r)
    /\ x' = 0
    /\ y' = 0
    /\ visited' = <<>>
    /\ fs0' = fs
    /\ op' = "download_satellite_images"
    /\ pc' = "loop"
    /\ UNCHANGED <<inputs, crop_size, latitude, longitude, output_path,
                   rejections, parsed, todo, fs, exit_code>>

(* One cell of the grid: main.py:111-126, and download_image up to the    *)
(* request for the download URL, main.py:43-65                             *)
LoopVisit ==
    /\ pc = "loop"
    /\ x < num_rows
    /\ y < num_columns
    /\ LET new_point == NewPoint(x, y, buffer_radius)
       IN  /\ latitude' = new_point.latitude
           /\ longitude' = new_point.longitude
           /\ visited' = Append(visited,
                  [x |-> x, y |-> y,
                   distance_east |-> DistanceEast(y, buffer_radius),
                   distance_north |-> DistanceNorth(x, buffer_radius),
                   latitude |-> new_point.latitude,
                   longitude |-> new_point.longitude,
                   scale |-> scale, buffer_radius |-> buffer_radius])
           /\ output_path' = OutputPath(OutFolder(buffer_radius, scale), x, y,
                                        new_point.latitude, new_point.longitude)
    /\ pc' = "url"
    /\ UNCHANGED <<inputs, calls, scale, buffer_radius, crop_size, num_rows,
                   num_columns, x, y, rejections, parsed, todo, fs, fs0, op,
                   exit_code>>

(* LoopNextRow starting the next row at the second column *)
LoopNextRowFromOne ==
    /\ pc = "loop"
    /\ x < num_rows
    /\ y >= num_columns
    /\ x' = x + 1
    /\ y' = 1
    /\ UNCHANGED <<inputs, pc, calls, scale, buffer_radius, crop_size, num_rows,
                   num_columns, visited, latitude, longitude, output_path,
                   rejections, parsed, todo, fs, fs0, op, exit_code>>

(* The inner loop is exhausted: next x, main.py:110-111 *)
LoopNextRow ==
    /\ pc = "loop"
    /\ x < num_rows
    /\ y >= num_columns
    /\ x' = x + 1
    /\ y' = 0
    /\ UNCHANGED <<inputs, pc, calls, scale, buffer_radius, crop_size, num_rows,
                   num_columns, visited, latitude, longitude, output_path,
                   rejections, parsed, todo, fs, fs0, op, exit_code>>

(* The outer loop is exhausted: download_satellite_images returns *)
LoopReturn ==
    /\ pc = "loop"
    /\ x >= num_rows
    /\ pc' = "main"
    /\ UNCHANGED <<inputs, calls, scale, buffer_radius, crop_size, num_rows,
                   num_columns, x, y, visited, latitude, longitude, output_path,
                   rejections, parsed, todo, fs, fs0, op, exit_code>>

(* ProviderRejects going on with the next cell instead of exiting *)
ProviderRejectsAndContinues ==
    /\ pc = "url"
    /\ rejections' = rejections + 1
    /\ y' = y + 1
    /\ pc' = "loop"
    /\ UNCHANGED <<inputs, calls, scale, buffer_radius, crop_size, num_rows,
                   num_columns, x, visited, latitude, longitude, output_path,
                   parsed, todo, fs, fs0, op, exit_code>>

(* image.getDownloadURL raises EEException: print and exit(-1),           *)
(* main.py:68-77                                                           *)
ProviderRejects ==
    /\ pc = "url"
    /\ rejections' = rejections + 1
    /\ pc' = "exited"
    /\ exit_code' = -1
    /\ UNCHANGED <<inputs, calls, scale, buffer_radius, crop_size, num_rows,
                   num_columns, x, y, visited, latitude, longitude, output_path,
                   parsed, todo, fs, fs0, op>>

(* The URL is obtained, the response is fetched and written to            *)
(* output_path as it came, main.py:69-91                                   *)
SaveResponse ==
    /\ pc = "url"
    /\ fs' = Write(fs, output_path,
                   Payload(imagery, latitude, longitude, scale, buffer_radius))
    /\ pc' = "crop"
    /\ UNCHANGED <<inputs, calls, scale, buffer_radius, crop_size, num_rows,
                   num_columns, x, y, visited, latitude, longitude, output_path,
                   rejections, parsed, todo, fs0, op, exit_code>>

(* crop_black_borders(output_path), main.py:94 and main.py:25-40; a file  *)
(* that is no image raises in Image.open and ends the process              *)
crop_black_borders ==
    /\ pc = "crop"
    /\ IF IsImage(fs[output_path])
       THEN /\ fs' = Write(fs, output_path, CropBlackBorders(fs[output_path]))
            /\ y' = y + 1
            /\ pc' = "loop"
            /\ UNCHANGED exit_code
       ELSE /\ pc' = "exited"
            /\ exit_code' = 1
            /\ UNCHANGED <<fs, y>>
    /\ UNCHANGED <<inputs, calls, scale, buffer_radius, crop_size, num_rows,
                   num_columns, x, visited, latitude, longitude, output_path,
                   rejections, parsed, todo, fs0, op>>

(* create_random_uav_images(scale, buffer_radius, crop_size) is called:   *)
(* main.py:161-171                                                         *)
create_random_uav_images(s, r, cs) ==
    /\ pc = "main"
    /\ calls < MaxCalls
    /\ calls' = calls + 1
    /\ scale' = s
    /\ buffer_radius' = r
    /\ crop_size' = cs
    /\ fs0' = fs
    /\ op' = "create_random_uav_images"
    /\ IF s.micro # 600000
       THEN /\ pc' = "exited"
            /\ exit_code' = -1
            /\ UNCHANGED todo
       ELSE /\ pc' = "uav"
            /\ todo' = FilesUnder(fs, OutFolder(r, s))
            /\ UNCHANGED exit_code
    /\ UNCHANGED <<inputs, num_rows, num_columns, x, y, visited, latitude,
                   longitude, output_path, rejections, parsed, fs>>

(* One file of the walk: main.py:172-189 and manipulate_image_improved,   *)
(* main.py:129-158                                                         *)
manipulate_image_improved ==
    /\ pc = "uav"
    /\ todo # {}
    /\ LET file_path == CHOOSE p \in todo : TRUE
           file == Basename(file_path)
           out == UavOutputPath(OutUavFolder(buffer_radius, scale), file)
       IN  /\ parsed' = ParseFileName(file)
           /\ IF ParseFileName(file).ok /\ IsImage(fs[file_path])
              THEN /\ \E rotation_angle \in Angles :
                        fs' = Write(fs, out,
                                    ManipulateImage(fs[file_path], rotation_angle,
                                                    crop_size))
                   /\ todo' = todo \ {file_path}
                   /\ UNCHANGED <<pc, exit_code>>
              ELSE /\ pc' = "exited"
                   /\ exit_code' = 1
                   /\ UNCHANGED <<fs, todo>>
    /\ UNCHANGED <<inputs, calls, scale, buffer_radius, crop_size, num_rows,
                   num_columns, x, y, visited, latitude, longitude, output_path,
                   rejections, fs0, op>>

(* The walk is over: create_random_uav_images returns *)
UavReturn ==
    /\ pc = "uav"
    /\ todo = {}
    /\ pc' = "main"
    /\ UNCHANGED <<inputs, calls, scale, buffer_radius, crop_size, num_rows,
                   num_columns, x, y, visited, latitude, longitude, output_path,
                   rejections, parsed, todo, fs, fs0, op, exit_code>>

Next ==
    \/ \E c \in DownloadConfigs : download_satellite_images(c[1], c[2])
    \/ LoopVisit
    \/ LoopNextRow
    \/ LoopReturn
    \/ ProviderRejects
    \/ SaveResponse
    \/ crop_black_borders
    \/ \E c \in UavConfigs : create_random_uav_images(c[1], c[2], c[3])
    \/ manipulate_image_improved
    \/ UavReturn

Spec == Init /\ [][Next]_vars

----------------------------------------------------------------------------
(* The naming of one tile and the reading back of its name, for inputs     *)
(* drawn from bounded sets: download_image builds the path and writes the  *)
(* file (main.py:83-89), create_random_uav_images lists the folder and     *)
(* splits the file name (main.py:171-177).                                 *)

CellIndexes == {0, 2, 5, 12}

(* 1.0, 2.0, the corner of the area, 0.0, -0.5, 1.2e-05 and 5e-06 *)
Decimals == {1000000, 2000000, latitude_bottom_left, longitude_bottom_left,
             0, -500000, 12, 5}

NamingRadii == {300, 800, 2000}

NamingScales == {PyInt(3), PyFloat(600000), PyFloat(3000000)}

InitNaming ==
    /\ area_length \in {20000}
    /\ area_height \in {20000}
    /\ imagery = "bordered"
    /\ pc = "name"
    /\ calls = 0
    /\ scale \in NamingScales
    /\ buffer_radius \in NamingRadii
    /\ crop_size = 0
    /\ num_rows = 0
    /\ num_columns = 0
    /\ x \in CellIndexes
    /\ y \in CellIndexes
    /\ visited = <<>>
    /\ latitude \in Decimals
    /\ longitude \in Decimals
    /\ output_path = <<>>
    /\ rejections = 0
    /\ parsed = NotParsed
    /\ todo = {}
    /\ fs = EmptyFs
    /\ fs0 = EmptyFs
    /\ op = "none"
    /\ exit_code = 0

(* main.py:83-89 *)
NameTile ==
    /\ pc = "name"
    /\ output_path' = OutputPath(OutFolder(buffer_radius, scale), x, y,
                                 latitude, longitude)
    /\ fs' = Write(fs, output_path',
                   Payload(imagery, latitude, longitude, scale, buffer_radius))
    /\ pc' = "parse"
    /\ UNCHANGED <<inputs, calls, scale, buffer_radius, crop_size, num_rows,
                   num_columns, x, y, visited, latitude, longitude, rejections,
                   parsed, todo, fs0, op, exit_code>>

(* main.py:171-177 *)
ParseTile ==
    /\ pc = "parse"
    /\ LET file_path == CHOOSE f \in FilesUnder(fs, OutFolder(buffer_radius, scale)) : TRUE
       IN  parsed' = ParseFileName(Basename(file_path))
    /\ pc' = "done"
    /\ UNCHANGED <<inputs, calls, scale, buffer_radius, crop_size, num_rows,
                   num_columns, x, y, visited, latitude, longitude, output_path,
                   rejections, todo, fs, fs0, op, exit_code>>

NextNaming ==
    \/ NameTile
    \/ ParseTile

NamingSpec == InitNaming /\ [][NextNaming]_vars

----------------------------------------------------------------------------
(* Properties *)

CellSide == 2 * buffer_radius

Downloading == op = "download_satellite_images"

(* C1: the loop of download_satellite_images calls download_image for the *)
(* cells in row-major order (x outer, y inner), each cell once, with the   *)
(* origin moved east by y * cell side and then north by x * cell side; the *)
(* call that has returned has visited them all, and none if a dimension    *)
(* is 0.                                                                   *)
C1_GridEnumeration ==
    Downloading =>
        /\ Len(visited) <= num_rows * num_columns
        /\ \A i \in 1..Len(visited) :
              LET cx == (i - 1) \div num_columns
                  cy == (i - 1) % num_columns
                  center == Destination(Destination(start_point, 90, cy * CellSide),
                                        0, cx * CellSide)
              IN  /\ visited[i].x = cx
                  /\ visited[i].y = cy
                  /\ visited[i].latitude = center.latitude
                  /\ visited[i].longitude = center.longitude
        /\ (pc = "main" => Len(visited) = num_rows * num_columns)

C1_Witness ==
    /\ Downloading
    /\ pc = "main"
    /\ num_rows = 3
    /\ num_columns = 2
    /\ [i \in 1..Len(visited) |-> <<visited[i].x, visited[i].y>>]
         = << <<0, 0>>, <<0, 1>>, <<1, 0>>, <<1, 1>>, <<2, 0>>, <<2, 1>> >>

(* C2 as stated: a step taken while the download URL is being obtained    *)
(* never ends the process.                                                 *)
C2_RejectionNeverFatal == [][pc = "url" => pc' # "exited"]_vars

(* C2 amended: a rejection by the provider ends the process with status   *)
(* -1; it happens at most once, the rejected cell's file is not written    *)
(* and no further cell is requested.                                       *)
C2_RejectionIsFatal ==
    rejections > 0 =>
        /\ rejections = 1
        /\ pc = "exited"
        /\ exit_code = -1
        /\ visited # <<>>
        /\ visited[Len(visited)].x = x /\ visited[Len(visited)].y = y
        /\ output_path \in DOMAIN fs =>
              output_path \in DOMAIN fs0 /\ fs[output_path] = fs0[output_path]

C2_Witness ==
    /\ rejections = 1
    /\ pc = "exited"
    /\ Len(visited) >= 2
    /\ Len(visited) < num_rows * num_columns

RuleOfThePlanner(radius_m, resolution) ==
    radius_m >= 300 /\ ~(radius_m < 500 /\ resolution.micro >= 3000000)

(* C3 as stated: every request issued has a radius of at least 300 and    *)
(* not a radius below 500 together with a resolution of 3 or more.         *)
C3_EveryRequestPassesTheRule ==
    \A i \in 1..Len(visited) :
        RuleOfThePlanner(visited[i].buffer_radius, visited[i].scale)

(* C3 amended: each cell of a completed download_satellite_images got     *)
(* exactly one request, every request carries the caller's buffer_radius   *)
(* and scale unchanged, and the requests of the four calls of __main__     *)
(* satisfy radius >= 300 and not (radius < 500 and resolution >= 3).       *)
C3_OneRequestPerCell ==
    Downloading =>
        /\ \A i \in 1..Len(visited) :
              /\ visited[i].buffer_radius = buffer_radius
              /\ visited[i].scale = scale
              /\ <<scale, buffer_radius>> \in MainConfigs =>
                    RuleOfThePlanner(visited[i].buffer_radius, visited[i].scale)
        /\ pc = "main" =>
              \A cx \in 0..(num_rows - 1), cy \in 0..(num_columns - 1) :
                  Cardinality({i \in 1..Len(visited) :
                                  visited[i].x = cx /\ visited[i].y = cy}) = 1

C3_Witness ==
    /\ Downloading
    /\ pc = "main"
    /\ <<scale, buffer_radius>> \in MainConfigs
    /\ Len(visited) >= 4

Slash == <<"/">>
Underscore == <<"_">>

ExampleTile ==
    /\ x = 2 /\ y = 5
    /\ latitude = 1000000 /\ longitude = 2000000
    /\ buffer_radius = 300
    /\ scale = PyFloat(600000)

TileParameters(c) ==
    IF c.form = "uav"
    THEN [latitude |-> c.src.latitude, longitude |-> c.src.longitude,
          scale |-> c.src.scale, buffer_radius |-> c.src.buffer_radius,
          rotation |-> c.angle]
    ELSE [latitude |-> c.latitude, longitude |-> c.longitude,
          scale |-> c.scale, buffer_radius |-> c.buffer_radius, rotation |-> 0]

(* C5: a path determines the parameters of the tile stored there, the     *)
(* rotation applied included: a tile written at a path that held a tile    *)
(* before has the parameters of that tile.                                 *)
C5_PathDeterminesParameters ==
    \A p \in DOMAIN fs \cap DOMAIN fs0 :
        TileParameters(fs[p]) = TileParameters(fs0[p])

(* What a store is given: the payload, or the source image and crop size *)
StoreInputs(c) ==
    IF c.form = "uav" THEN [src |-> c.src, crop_size |-> c.crop_size]
    ELSE [src |-> [c EXCEPT !.form = "raw"], crop_size |-> 0]

(* C6: a tile stored again with the same arguments and payload leaves the *)
(* same file at its path.                                                  *)
C6_StoreIdempotent ==
    pc = "main" =>
        \A p \in DOMAIN fs \cap DOMAIN fs0 :
            StoreInputs(fs[p]) = StoreInputs(fs0[p]) => fs[p] = fs0[p]

(* C7 as stated: no file ever holds the payload as the provider sent it *)
C7_NoRawFileOnDisk == \A p \in DOMAIN fs : fs[p].form # "raw"

(* C7 amended: the payload is written as it came and cropped in place     *)
(* afterwards; a file holds the raw payload only while its download_image  *)
(* is between the write and the crop, after the crop raised, or when the   *)
(* image is entirely dark; no tile under out/ is ever rotated.             *)
C7_RawThenCroppedInPlace ==
    \A p \in DOMAIN fs :
        /\ fs[p].form = "raw" =>
              \/ p = output_path /\ pc = "crop"
              \/ p = output_path /\ pc = "exited" /\ exit_code = 1
              \/ fs[p].kind = "black"
        /\ StartsWith(p, <<"o", "u", "t", "/">>) => fs[p].form # "uav"

C7_Witness ==
    /\ pc = "crop"
    /\ fs[output_path].form = "raw"
    /\ \E p \in DOMAIN fs : fs[p].form = "cropped"

(* C8: the fields read from a file name written by download_image are     *)
(* the texts of x, y, latitude and longitude it was built from.            *)
C8_FileNameRoundTrip ==
    pc = "done" =>
        parsed = [ok |-> TRUE, x |-> IntStr(x), y |-> IntStr(y),
                  latitude |-> FloatRepr(latitude),
                  longitude |-> FloatRepr(longitude)]

C8_Witness ==
    /\ pc = "done"
    /\ parsed.ok
    /\ x = 12
    /\ latitude = 12
    /\ longitude = longitude_bottom_left

(* C9: every requested center is at most area_length east and at most     *)
(* area_height north of the bottom-left corner.                            *)
C9_CentersInsideArea ==
    \A i \in 1..Len(visited) :
        /\ visited[i].distance_east <= area_length
        /\ visited[i].distance_north <= area_height

(* C10: when create_random_uav_images has returned, the UAV folder holds  *)
(* exactly the file names of the satellite folder, one file each, and      *)
(* every file outside the UAV folder is as it was when the call began.     *)
C10_UavPassMirrors ==
    (op = "create_random_uav_images" /\ pc = "main") =>
        LET sat == FilesUnder(fs, OutFolder(buffer_radius, scale))
            uav == FilesUnder(fs, OutUavFolder(buffer_radius, scale))
        IN  /\ {Basename(p) : p \in uav} = {Basename(p) : p \in sat}
            /\ Cardinality(uav) = Cardinality(sat)
            /\ \A p \in uav : fs[p].form = "uav"
            /\ \A p \in DOMAIN fs0 :
                  Dirname(p) # OutUavFolder(buffer_radius, scale) =>
                      p \in DOMAIN fs /\ fs[p] = fs0[p]
            /\ \A p \in DOMAIN fs :
                  Dirname(p) # OutUavFolder(buffer_radius, scale) => p \in DOMAIN fs0

C10_Witness ==
    /\ op = "create_random_uav_images"
    /\ pc = "main"
    /\ Cardinality(FilesUnder(fs, OutFolder(buffer_radius, scale))) >= 2
    /\ Cardinality(FilesUnder(fs, OutUavFolder(buffer_radius, scale))) >= 2

====
